---- MODULE Spec2Model ----
(***************************************************************************)
(* A model of the mlb-mcp tool server: the tools registered in server.py,  *)
(* the adapters of tools/mlb_statsapi_tools.py and tools/statcast_tools.py *)
(* and the tabular conversion _convert_dataframe_to_dict.                  *)
(*                                                                         *)
(* Python values are modelled as follows.  Scalars (str, int) are strings  *)
(* holding their text, so that an f-string is the sequence of its parts;   *)
(* Python's None is the token None.  A dict is a function on strings, a    *)
(* list is a sequence.  An exception is its message text, str(e).          *)
(* The external providers (statsapi, pybaseball) are not part of the       *)
(* repository: each call to them either raises or returns a value, chosen  *)
(* nondeterministically from a small set.                                  *)
(*                                                                         *)
(* Spec is the server called by one caller at a time, SpecConvert is the   *)
(* tabular conversion called on its own, SpecRepeat is a caller repeating  *)
(* an invocation, SpecConcurrent is the server with several invocations in *)
(* flight, SpecLogging is the logging set-up called any number of times.   *)
(***************************************************************************)
EXTENDS Integers, Sequences, FiniteSets, TLC

VARIABLES
    pc,        \* "idle", or "done" when a handler has run and its outcome is being sent
    call,      \* the invocation that ran: the operation's name and its arguments
    request,   \* the request the handler made to the provider
    response,  \* what the provider answered
    outcome,   \* what the handler returned or raised
    log,       \* the log records the handler emitted
    sent,      \* every provider request of the invocation, in the order made
    clock,     \* the date datetime.datetime.now() falls on
    tools,     \* mcp's tool catalogue: the names registered, in registration order
    inbox,     \* invocations the server has received and not started yet
    earlier,   \* an earlier invocation the caller is about to repeat
    logging    \* the logging module's state: loggers' levels and handlers, the last record

vars == <<pc, call, request, response, outcome, log, sent, clock, tools, inbox, earlier,
         logging>>

-----------------------------------------------------------------------------
(* Bounds of the model *)

MaxGames == 2
MaxPeople == 2
MaxRows == 2
MaxInFlight == 2

-----------------------------------------------------------------------------
(* Python values *)

None == "None"

\* True and False
Bools == {"True", "False"}

EmptyDict == [k \in {} |-> None]

\* d[k] = v on a dict
Put(d, k, v) == [x \in DOMAIN d \cup {k} |-> IF x = k THEN v ELSE d[x]]

\* sequences over S of length at most n
SeqUpTo(S, n) == UNION {[1..k -> S] : k \in 0..n}

\* `x in msg` for a message held as the sequence of its f-string parts
Contains(msg, x) == \E i \in 1..Len(msg) : msg[i] = x

-----------------------------------------------------------------------------
(* What the providers can answer *)

ErrMsgs == {"HTTP 404", "timed out"}

ProviderRaises == {[kind |-> "raise", msg |-> m] : m \in ErrMsgs}

Ok(type, v) == [kind |-> "ok", type |-> type, value |-> v]

Mappings ==
    { EmptyDict,
      [copyright |-> "MLB"],
      [copyright |-> "MLB", stats |-> <<"s1", "s2">>] }

MappingResponses == ProviderRaises \cup {Ok("dict", m) : m \in Mappings}

Games ==
    { [game_id |-> "530769", game_date |-> "2018-07-09", status |-> "Final"],
      [game_id |-> "529466", game_date |-> "2018-07-11", status |-> "Scheduled"] }

ScheduleResponses ==
    ProviderRaises \cup {Ok("list", g) : g \in SeqUpTo(Games, MaxGames)}

Person == [id |-> "592450", fullName |-> "Aaron Judge"]

LookupResponses ==
    ProviderRaises \cup {Ok("list", [i \in 1..k |-> Person]) : k \in 0..MaxPeople}

Texts == {"", "Judge 62"}

TextResponses == ProviderRaises \cup {Ok("str", t) : t \in Texts}

-----------------------------------------------------------------------------
(* utils/logging_config.py and server.py: the logging set-up *)

\* the root logger, and the loggers the modules name
Root == "root"
LoggerNames == {Root, "statsapi", "statcast_tools"}

\* os.environ: MLB_STATS_LOG_LEVEL and MLB_STATS_LOG_FILE, None when unset
Environments ==
    {[MLB_STATS_LOG_LEVEL |-> l, MLB_STATS_LOG_FILE |-> f] :
        l \in {None, "error"}, f \in {None, "mlb.log"}}

\* getattr(logging, os.environ.get("MLB_STATS_LOG_LEVEL", "INFO").upper(), logging.INFO)
LevelOf(env) == IF env.MLB_STATS_LOG_LEVEL = "error" THEN 40 ELSE 20

NoRecord == [name |-> "none"]

\* the logging module when the interpreter starts: no handler anywhere, the
\* root logger at WARNING and every other logger at NOTSET
FreshLogging ==
    [ level |-> [n \in LoggerNames |-> IF n = Root THEN 30 ELSE 0],
      handlers |-> [n \in LoggerNames |-> <<>>],
      configured |-> {},
      record |-> NoRecord,
      written |-> <<>> ]

\* Logger.getEffectiveLevel(): the logger's level, or its parent's when NOTSET
EffectiveLevel(st, name) ==
    IF st.level[name] # 0 THEN st.level[name] ELSE st.level[Root]

\* Logger.log(levelno, msg) on logger `name`: an enabled record goes to the
\* logger's handlers and, propagate being True (nothing sets it), to the
\* handlers of its parent, the root logger; each handler writes one line.
emit(st, name, levelno) ==
    [st EXCEPT
        !.record = [name |-> name, levelno |-> levelno],
        !.written =
            IF levelno >= EffectiveLevel(st, name)
            THEN st.handlers[name] \o (IF name = Root THEN <<>> ELSE st.handlers[Root])
            ELSE <<>>]

\* the part the two setup_logging functions share: set the level, replace
\* the handlers by one new FileHandler or StreamHandler, log an INFO record
configure(st, name, env) ==
    LET h == IF env.MLB_STATS_LOG_FILE # None
             THEN [handler |-> "FileHandler", to |-> env.MLB_STATS_LOG_FILE]
             ELSE [handler |-> "StreamHandler", to |-> "stderr"]
    IN  emit([st EXCEPT !.level[name] = LevelOf(env),
                        !.handlers[name] = <<h>>,
                        !.configured = @ \cup {name}],
             name, 20)

\* utils/logging_config.py: setup_logging(logger_name), None for the root logger
setup_logging(st, logger_name, env) ==
    configure(st, IF logger_name = None THEN Root ELSE logger_name, env)

\* server.py: setup_logging(), which configures "statsapi" and sets the root
\* logger's level
server_setup_logging(st, env) ==
    configure([st EXCEPT !.level[Root] = LevelOf(env)], "statsapi", env)

\* server.py is imported with the environment variables unset
LoggingAtImport ==
    server_setup_logging(FreshLogging,
        [MLB_STATS_LOG_LEVEL |-> None, MLB_STATS_LOG_FILE |-> None])

-----------------------------------------------------------------------------
(* Outcomes of an invocation, and the server's state *)

Return(type, v) == [kind |-> "return", type |-> type, value |-> v]

Raise(msg) == [kind |-> "raise", msg |-> msg]

NoCall == [op |-> "none"]
NoRequest == [fn |-> "none"]
NoResponse == [kind |-> "none"]
NoOutcome == [kind |-> "none"]

Req(fn, args, kwargs) == [fn |-> fn, args |-> args, kwargs |-> kwargs]

\* logger.error(msg); records below the default level INFO are not kept
LogError(msg) == [level |-> "ERROR", msg |-> msg]
LogInfo(msg) == [level |-> "INFO", msg |-> msg]

\* datetime.datetime.now(): the dates the model's clock can show, in order
Days == <<"2023-04-02", "2024-03-01", "2025-01-01">>

Clock == {Days[i] : i \in 1..Len(Days)}

\* mutant: lookup_player defined without its @mcp.tool() decorator
Registered_without_lookup_player ==
    << "get_stats", "get_schedule", "get_player_stats", "get_standings",
       "get_team_leaders", "get_boxscore", "get_game_pace", "get_meta",
       "get_available_endpoints" >>

\* server.py, the @mcp.tool() decorators in the order they run at import
Registered ==
    << "get_stats", "get_schedule", "get_player_stats", "get_standings",
       "get_team_leaders", "lookup_player", "get_boxscore", "get_game_pace",
       "get_meta", "get_available_endpoints" >>

NoEarlier == [call |-> NoCall]

Init ==
    /\ pc = "idle"
    /\ call = NoCall
    /\ request = NoRequest
    /\ response = NoResponse
    /\ outcome = NoOutcome
    /\ log = <<>>
    /\ sent = <<>>
    /\ clock \in Clock
    /\ tools = Registered
    /\ inbox = {}
    /\ earlier = NoEarlier
    /\ logging = LoggingAtImport

\* The upstream data set does not change between an invocation and its
\* repetition: the provider answers the same request the same way.
UpstreamUnchanged(req, resp) ==
    IF earlier = NoEarlier THEN TRUE
    ELSE IF req = earlier.request THEN resp = earlier.response
    ELSE TRUE

\* mutant: a handler that calls the provider again when the call failed
provider_calls_with_retry(req, resp) ==
    IF resp.kind = "raise" THEN <<req, req>> ELSE <<req>>

\* Every handler has one provider call on each of its paths, in no loop, and
\* its except clause does not call again.
provider_calls(req, resp) == <<req>>

\* mutant: a server that takes a tool out of its catalogue once it has failed
Invocation_disables_failed_tool(op, args, req, resp, out, logs) ==
    /\ UpstreamUnchanged(req, resp)
    /\ pc' = "done"
    /\ call' = [op |-> op, args |-> args]
    /\ request' = req
    /\ response' = resp
    /\ outcome' = out
    /\ log' = logs
    /\ sent' = provider_calls(req, resp)
    /\ inbox' = inbox \ {[op |-> op, args |-> args]}
    /\ tools' = IF resp.kind = "raise"
                THEN SelectSeq(tools, LAMBDA t : t # op)
                ELSE tools
    /\ UNCHANGED <<clock, earlier, logging>>

\* The effect of one invocation of a tool, which the server starts when it is
\* idle: the provider request it made, the provider's answer, the outcome
\* handed to the transport and the log records it wrote.
Invocation(op, args, req, resp, out, logs) ==
    /\ UpstreamUnchanged(req, resp)
    /\ pc' = "done"
    /\ call' = [op |-> op, args |-> args]
    /\ request' = req
    /\ response' = resp
    /\ outcome' = out
    /\ log' = logs
    /\ sent' = provider_calls(req, resp)
    /\ inbox' = inbox \ {[op |-> op, args |-> args]}
    /\ UNCHANGED <<clock, tools, earlier, logging>>

\* The transport sends the outcome to the caller; nothing of the call is kept.
Deliver ==
    /\ pc = "done"
    /\ pc' = "idle"
    /\ call' = NoCall
    /\ request' = NoRequest
    /\ response' = NoResponse
    /\ outcome' = NoOutcome
    /\ log' = <<>>
    /\ sent' = <<>>
    /\ UNCHANGED <<clock, tools, inbox, earlier, logging>>

\* Time passes while the server waits for the next request.
Tick ==
    /\ pc = "idle"
    /\ \E i \in 1..(Len(Days) - 1) : clock = Days[i] /\ clock' = Days[i + 1]
    /\ UNCHANGED <<pc, call, request, response, outcome, log, sent, tools, inbox, earlier, logging>>

-----------------------------------------------------------------------------
(* server.py: the registered tools *)

Endpoints == {"standings", "invalid_endpoint"}
ParamDicts == {EmptyDict, [sportId |-> "1"]}

\* mutant: the provider's mapping returned with an added error entry of None
get_stats_returns_error_none(endpoint, params, resp) ==
    IF resp.kind = "ok"
    THEN Return(resp.type, Put(resp.value, "error", None))
    ELSE Return("dict", [error |-> resp.msg, params |-> params])

get_stats_returns(endpoint, params, resp) ==
    IF resp.kind = "ok"
    THEN Return(resp.type, resp.value)
    ELSE Return("dict", [error |-> resp.msg, params |-> params])

get_stats(endpoint, params) ==
    /\ pc = "idle"
    /\ \E resp \in MappingResponses :
        Invocation("get_stats", [endpoint |-> endpoint, params |-> params],
            Req("statsapi.get", <<endpoint, params>>, EmptyDict),
            resp,
            get_stats_returns(endpoint, params, resp),
            IF resp.kind = "ok" THEN <<>>
            ELSE <<LogError(<<"Error accessing MLB Stats API endpoint ",
                              endpoint, ": ", resp.msg>>)>>)

Dates == {None, "2023-07-14", "invalid_date"}
TeamIds == {None, "143"}
SportIds == {"1", "11"}
GameTypes == {None, "R"}

\* mutant: kwargs kept in a module-level dict that the invocations in flight
\* share, so that a waiting get_player_stats leaves its personId in it
schedule_kwargs_shared(date, team_id, sport_id, game_type) ==
    LET k0 == IF \E d \in inbox : d.op = "get_player_stats"
              THEN [personId |-> "592450"]
              ELSE EmptyDict
        k1 == IF date # None THEN Put(k0, "date", date) ELSE k0
        k2 == IF team_id # None THEN Put(k1, "team", team_id) ELSE k1
        k3 == IF sport_id # "1" THEN Put(k2, "sportId", sport_id) ELSE k2
        k4 == IF game_type # None THEN Put(k3, "gameType", game_type) ELSE k3
    IN  k4

\* mutant: get_schedule sending the team under get_game_pace's key teamId
schedule_kwargs_teamId(date, team_id, sport_id, game_type) ==
    LET k0 == EmptyDict
        k1 == IF date # None THEN Put(k0, "date", date) ELSE k0
        k2 == IF team_id # None THEN Put(k1, "teamId", team_id) ELSE k1
        k3 == IF sport_id # "1" THEN Put(k2, "sportId", sport_id) ELSE k2
        k4 == IF game_type # None THEN Put(k3, "gameType", game_type) ELSE k3
    IN  k4

schedule_kwargs(date, team_id, sport_id, game_type) ==
    LET k0 == EmptyDict
        k1 == IF date # None THEN Put(k0, "date", date) ELSE k0
        k2 == IF team_id # None THEN Put(k1, "team", team_id) ELSE k1
        k3 == IF sport_id # "1" THEN Put(k2, "sportId", sport_id) ELSE k2
        k4 == IF game_type # None THEN Put(k3, "gameType", game_type) ELSE k3
    IN  k4

\* mutant: get_schedule returning result[:-1]
get_schedule_drops_last(kwargs, resp) ==
    IF resp.kind = "ok"
    THEN Return(resp.type, SubSeq(resp.value, 1, Len(resp.value) - 1))
    ELSE Return("dict", [error |-> resp.msg, params_sent |-> kwargs])


get_schedule_returns(kwargs, resp) ==
    IF resp.kind = "ok"
    THEN Return(resp.type, resp.value)
    ELSE Return("dict", [error |-> resp.msg, params_sent |-> kwargs])

get_schedule(date, team_id, sport_id, game_type) ==
    LET kwargs == schedule_kwargs(date, team_id, sport_id, game_type) IN
    /\ pc = "idle"
    /\ \E resp \in ScheduleResponses :
        Invocation("get_schedule",
            [date |-> date, team_id |-> team_id, sport_id |-> sport_id,
             game_type |-> game_type],
            Req("statsapi.schedule", <<>>, kwargs),
            resp,
            get_schedule_returns(kwargs, resp),
            IF resp.kind = "ok" THEN <<>>
            ELSE <<LogError(<<"Error retrieving schedule: ", resp.msg>>)>>)

PlayerIds == {"592450", "0"}
Groups == {"hitting", "pitching"}
Seasons == {None, "2023"}
StatTypes == {"season", "gameLog"}

player_stats_kwargs(player_id, group, season, stats) ==
    LET k0 == [personId |-> player_id, group |-> group, type |-> stats]
        k1 == IF season # None THEN Put(k0, "season", season) ELSE k0
    IN  k1

\* mutant: get_player_stats keeping its results in a module-level cache and
\* marking what it serves from it
get_player_stats_marks_cached(kwargs, resp) ==
    IF resp.kind = "ok"
    THEN IF earlier # NoEarlier /\ resp.type = "dict"
         THEN Return(resp.type, Put(resp.value, "cached", "True"))
         ELSE Return(resp.type, resp.value)
    ELSE Return("dict", [error |-> resp.msg, params_sent |-> kwargs])

get_player_stats_returns(kwargs, resp) ==
    IF resp.kind = "ok"
    THEN Return(resp.type, resp.value)
    ELSE Return("dict", [error |-> resp.msg, params_sent |-> kwargs])

get_player_stats(player_id, group, season, stats) ==
    LET kwargs == player_stats_kwargs(player_id, group, season, stats) IN
    /\ pc = "idle"
    /\ \E resp \in MappingResponses :
        Invocation("get_player_stats",
            [player_id |-> player_id, group |-> group, season |-> season,
             stats |-> stats],
            Req("statsapi.player_stat_data", <<>>, kwargs),
            resp,
            get_player_stats_returns(kwargs, resp),
            IF resp.kind = "ok" THEN <<>>
            ELSE <<LogError(<<"Error retrieving player stats for player ID ",
                              player_id, ": ", resp.msg>>)>>)

LeagueIds == {None, "103"}
DivisionIds == {None, "201"}
StandingsTypes == {"regularSeason", "springTraining"}

standings_kwargs(league_id, division_id, season, standings_types) ==
    LET k0 == [standingsTypes |-> standings_types]
        k1 == IF league_id # None THEN Put(k0, "leagueId", league_id) ELSE k0
        k2 == IF division_id # None THEN Put(k1, "divisionId", division_id) ELSE k1
        k3 == IF season # None THEN Put(k2, "season", season) ELSE k2
    IN  k3

\* mutant: get_standings wrapping the provider's result
get_standings_wraps(kwargs, resp) ==
    IF resp.kind = "ok"
    THEN Return("dict", [standings |-> resp.value, success |-> "True"])
    ELSE Return("dict", [error |-> resp.msg, params_sent |-> kwargs])


get_standings_returns(kwargs, resp) ==
    IF resp.kind = "ok"
    THEN Return(resp.type, resp.value)
    ELSE Return("dict", [error |-> resp.msg, params_sent |-> kwargs])

get_standings(league_id, division_id, season, standings_types) ==
    LET kwargs == standings_kwargs(league_id, division_id, season, standings_types) IN
    /\ pc = "idle"
    /\ \E resp \in MappingResponses :
        Invocation("get_standings",
            [league_id |-> league_id, division_id |-> division_id,
             season |-> season, standings_types |-> standings_types],
            Req("statsapi.standings_data", <<>>, kwargs),
            resp,
            get_standings_returns(kwargs, resp),
            IF resp.kind = "ok" THEN <<>>
            ELSE <<LogError(<<"Error retrieving standings: ", resp.msg>>)>>)

LeaderCategories == {"homeRuns", "battingAverage"}
LeaderGameTypes == {"R", "P"}
Limits == {None, "5"}

\* the keyword arguments of the statsapi.team_leaders call: limit and season
\* are always passed, season also when it is None; leader_game_type is not
\* passed
team_leaders_kwargs(season, leader_game_type, limit) ==
    [limit |-> IF limit = None THEN "10" ELSE limit, season |-> season]

get_team_leaders_returns(team_id, leader_category, season, resp) ==
    IF resp.kind = "ok"
    THEN Return("dict",
            [teamId |-> team_id, leaderCategory |-> leader_category,
             season |-> season, results |-> resp.value, teamLeaders |-> "True"])
    ELSE Return("dict",
            [error |-> resp.msg, team_id |-> team_id,
             leader_category |-> leader_category])

get_team_leaders(team_id, leader_category, season, leader_game_type, limit) ==
    /\ pc = "idle"
    /\ \E resp \in TextResponses :
        Invocation("get_team_leaders",
            [team_id |-> team_id, leader_category |-> leader_category,
             season |-> season, leader_game_type |-> leader_game_type,
             limit |-> limit],
            Req("statsapi.team_leaders", <<team_id, leader_category>>,
                team_leaders_kwargs(season, leader_game_type, limit)),
            resp,
            get_team_leaders_returns(team_id, leader_category, season, resp),
            IF resp.kind = "ok" THEN <<>>
            ELSE <<LogError(<<"Error retrieving team leaders for team ID ",
                              team_id, ": ", resp.msg>>)>>)

Names == {"Aaron Judge", "Invalid Player Name 123"}

\* mutant: lookup_player without its try/except
lookup_player_reraises(name, resp) ==
    IF resp.kind = "ok"
    THEN Return("dict", [people |-> resp.value])
    ELSE Raise(<<resp.msg>>)


lookup_player_returns(name, resp) ==
    IF resp.kind = "ok"
    THEN Return("dict", [people |-> resp.value])
    ELSE Return("dict", [error |-> resp.msg, name |-> name])

lookup_player(name) ==
    /\ pc = "idle"
    /\ \E resp \in LookupResponses :
        Invocation("lookup_player", [name |-> name],
            Req("statsapi.lookup_player", <<name>>, EmptyDict),
            resp,
            lookup_player_returns(name, resp),
            IF resp.kind = "ok"
            THEN IF Len(resp.value) > 0 THEN <<>>
                 ELSE <<LogInfo(<<"No players found matching: ", name>>)>>
            ELSE <<LogError(<<"Error looking up player ", name, ": ", resp.msg>>)>>)

GameIds == {"717953", "999999999"}
Timecodes == {None, "", "20230714_201500"}

boxscore_kwargs(timecode) ==
    IF timecode # None /\ timecode # ""
    THEN Put(EmptyDict, "timecode", timecode)
    ELSE EmptyDict

get_boxscore_returns(game_id, resp) ==
    IF resp.kind = "ok"
    THEN Return("dict",
            [game_id |-> game_id, boxscore |-> resp.value, success |-> "True"])
    ELSE Return("dict", [error |-> resp.msg, game_id |-> game_id])

get_boxscore(game_id, timecode) ==
    /\ pc = "idle"
    /\ \E resp \in TextResponses :
        Invocation("get_boxscore", [game_id |-> game_id, timecode |-> timecode],
            Req("statsapi.boxscore", <<game_id>>, boxscore_kwargs(timecode)),
            resp,
            get_boxscore_returns(game_id, resp),
            IF resp.kind = "ok" THEN <<>>
            ELSE <<LogError(<<"Error retrieving boxscore for game ID ",
                              game_id, ": ", resp.msg>>)>>)

game_pace_kwargs(season, team_id) ==
    LET k0 == [sportId |-> "1"]
        k1 == IF season # None THEN Put(k0, "season", season) ELSE k0
        k2 == IF team_id # None THEN Put(k1, "teamId", team_id) ELSE k1
    IN  k2

get_game_pace_returns(kwargs, resp) ==
    IF resp.kind = "ok"
    THEN Return(resp.type, resp.value)
    ELSE Return("dict", [error |-> resp.msg, params_sent |-> kwargs])

get_game_pace(season, team_id) ==
    LET kwargs == game_pace_kwargs(season, team_id) IN
    /\ pc = "idle"
    /\ \E resp \in MappingResponses :
        Invocation("get_game_pace", [season |-> season, team_id |-> team_id],
            Req("statsapi.game_pace_data", <<>>, kwargs),
            resp,
            get_game_pace_returns(kwargs, resp),
            IF resp.kind = "ok" THEN <<>>
            ELSE <<LogError(<<"Error retrieving game pace data: ", resp.msg>>)>>)

TypeNames == {"positions", "invalid_type"}
FieldsValues == {None, "", "code"}

get_meta_returns(type_name, fields, resp) ==
    IF resp.kind = "ok"
    THEN Return(resp.type, resp.value)
    ELSE Return("dict", [error |-> resp.msg, type |-> type_name, fields |-> fields])

get_meta(type_name, fields) ==
    /\ pc = "idle"
    /\ \E resp \in MappingResponses :
        Invocation("get_meta", [type_name |-> type_name, fields |-> fields],
            IF fields # None /\ fields # ""
            THEN Req("statsapi.meta", <<type_name>>, [fields |-> fields])
            ELSE Req("statsapi.meta", <<type_name>>, EmptyDict),
            resp,
            get_meta_returns(type_name, fields, resp),
            IF resp.kind = "ok" THEN <<>>
            ELSE <<LogError(<<"Error retrieving metadata for type ",
                              type_name, ": ", resp.msg>>)>>)

-----------------------------------------------------------------------------
(* get_available_endpoints, in server.py and in tools/mlb_statsapi_tools.py *)

\* A dict literal is modelled as the function it denotes (the order of its
\* keys is not kept).

\* the `endpoints` literal of tools/mlb_statsapi_tools.py
tools_endpoints ==
    [
      attendance |->
        [url |-> "https://statsapi.mlb.com/api/{ver}/attendance",
         required_params |-> <<"teamId", "leagueId", "leagueListId">>,
         all_params |-> <<"ver", "teamId", "leagueId", "season", "date",
                       "leagueListId", "gameType", "fields">>,
         notes |-> None],
      awards |->
        [url |-> "https://statsapi.mlb.com/api/{ver}/awards{awardId}{recipients}",
         required_params |-> <<>>,
         all_params |-> <<"ver", "awardId", "recipients", "sportId",
                       "leagueId", "season", "hydrate", "fields">>,
         notes |-> "Call awards endpoint with no parameters to return a list of awardIds."],
      conferences |->
        [url |-> "https://statsapi.mlb.com/api/{ver}/conferences",
         required_params |-> <<>>,
         all_params |-> <<"ver", "conferenceId", "season", "fields">>,
         notes |-> None],
      divisions |->
        [url |-> "https://statsapi.mlb.com/api/{ver}/divisions",
         required_params |-> <<>>,
         all_params |-> <<"ver", "divisionId", "leagueId", "sportId",
                       "season">>,
         notes |-> "Call divisions endpoint with no parameters to return a list of divisions."],
      draft |->
        [url |-> "https://statsapi.mlb.com/api/{ver}/draft{prospects}{year}{latest}",
         required_params |-> <<>>,
         all_params |-> <<"ver", "prospects", "year", "latest", "limit",
                       "fields", "round", "name", "school", "state",
                       "country", "position", "teamId", "playerId",
                       "bisPlayerId">>,
         notes |-> "No query parameters are honored when 'latest' endpoint is queried (year is still required). Prospects and Latest cannot be used together."],
      game |->
        [url |-> "https://statsapi.mlb.com/api/{ver}/game/{gamePk}/feed/live",
         required_params |-> <<"gamePk">>,
         all_params |-> <<"ver", "gamePk", "timecode", "hydrate",
                       "fields">>,
         notes |-> None],
      game_diff |->
        [url |-> "https://statsapi.mlb.com/api/{ver}/game/{gamePk}/feed/live/diffPatch",
         required_params |-> <<"gamePk", "startTimecode", "endTimecode">>,
         all_params |-> <<"ver", "gamePk", "startTimecode", "endTimecode">>,
         notes |-> None],
      game_timestamps |->
        [url |-> "https://statsapi.mlb.com/api/{ver}/game/{gamePk}/feed/live/timestamps",
         required_params |-> <<"gamePk">>,
         all_params |-> <<"ver", "gamePk">>,
         notes |-> None],
      game_changes |->
        [url |-> "https://statsapi.mlb.com/api/{ver}/game/changes",
         required_params |-> <<"updatedSince">>,
         all_params |-> <<"ver", "updatedSince", "sportId", "gameType",
                       "season", "fields">>,
         notes |-> None],
      game_contextMetrics |->
        [url |-> "https://statsapi.mlb.com/api/{ver}/game/{gamePk}/contextMetrics",
         required_params |-> <<"gamePk">>,
         all_params |-> <<"ver", "gamePk", "timecode", "fields">>,
         notes |-> None],
      game_winProbability |->
        [url |-> "https://statsapi.mlb.com/api/{ver}/game/{gamePk}/winProbability",
         required_params |-> <<"gamePk">>,
         all_params |-> <<"ver", "gamePk", "timecode", "fields">>,
         notes |-> "If you only want the current win probability for each team, try the game_contextMetrics endpoint instead."],
      game_boxscore |->
        [url |-> "https://statsapi.mlb.com/api/{ver}/game/{gamePk}/boxscore",
         required_params |-> <<"gamePk">>,
         all_params |-> <<"ver", "gamePk", "timecode", "fields">>,
         notes |-> None],
      game_content |->
        [url |-> "https://statsapi.mlb.com/api/{ver}/game/{gamePk}/content",
         required_params |-> <<"gamePk">>,
         all_params |-> <<"ver", "gamePk", "highlightLimit">>,
         notes |-> None],
      game_linescore |->
        [url |-> "https://statsapi.mlb.com/api/{ver}/game/{gamePk}/linescore",
         required_params |-> <<"gamePk">>,
         all_params |-> <<"ver", "gamePk", "timecode", "fields">>,
         notes |-> None],
      game_playByPlay |->
        [url |-> "https://statsapi.mlb.com/api/{ver}/game/{gamePk}/playByPlay",
         required_params |-> <<"gamePk">>,
         all_params |-> <<"ver", "gamePk", "timecode", "fields">>,
         notes |-> None],
      people |->
        [url |-> "https://statsapi.mlb.com/api/{ver}/people",
         required_params |-> <<"personIds">>,
         all_params |-> <<"ver", "personIds", "hydrate", "fields">>,
         notes |-> None],
      person |->
        [url |-> "https://statsapi.mlb.com/api/{ver}/people/{personId}",
         required_params |-> <<"personId">>,
         all_params |-> <<"ver", "personId", "hydrate", "fields">>,
         notes |-> None],
      person_stats |->
        [url |-> "https://statsapi.mlb.com/api/{ver}/people/{personId}/stats/game/{gamePk}",
         required_params |-> <<"personId", "gamePk">>,
         all_params |-> <<"ver", "personId", "gamePk", "fields">>,
         notes |-> "Specify 'current' instead of a gamePk for a player's current game stats."],
      schedule |->
        [url |-> "https://statsapi.mlb.com/api/{ver}/schedule",
         required_params |-> <<"sportId or gamePk or gamePks">>,
         all_params |-> <<"ver", "scheduleType", "eventTypes", "hydrate",
                       "teamId", "leagueId", "sportId", "gamePk",
                       "gamePks", "venueIds", "gameTypes", "date",
                       "startDate", "endDate", "opponentId", "fields",
                       "season">>,
         notes |-> None],
      standings |->
        [url |-> "https://statsapi.mlb.com/api/{ver}/standings",
         required_params |-> <<"leagueId">>,
         all_params |-> <<"ver", "leagueId", "season", "standingsTypes",
                       "date", "hydrate", "fields">>,
         notes |-> None],
      stats |->
        [url |-> "https://statsapi.mlb.com/api/{ver}/stats",
         required_params |-> <<"stats", "group">>,
         all_params |-> <<"ver", "stats", "playerPool", "position",
                       "teamId", "leagueId", "limit", "offset", "group",
                       "gameType", "season", "sportIds", "sortStat",
                       "order", "hydrate", "fields", "personId", "metrics",
                       "startDate", "endDate">>,
         notes |-> "If no limit is specified, the response will be limited to 50 records."],
      stats_leaders |->
        [url |-> "https://statsapi.mlb.com/api/{ver}/stats/leaders",
         required_params |-> <<"leaderCategories">>,
         all_params |-> <<"ver", "leaderCategories", "playerPool",
                       "leaderGameTypes", "statGroup", "season",
                       "leagueId", "sportId", "hydrate", "limit", "fields",
                       "statType">>,
         notes |-> "If excluding season parameter to get all time leaders, include statType=statsSingleSeason or you will likely not get any results."],
      teams |->
        [url |-> "https://statsapi.mlb.com/api/{ver}/teams",
         required_params |-> <<>>,
         all_params |-> <<"ver", "season", "activeStatus", "leagueIds",
                       "sportId", "sportIds", "gameType", "hydrate",
                       "fields">>,
         notes |-> None],
      team |->
        [url |-> "https://statsapi.mlb.com/api/{ver}/teams/{teamId}",
         required_params |-> <<"teamId">>,
         all_params |-> <<"ver", "teamId", "season", "sportId", "hydrate",
                       "fields">>,
         notes |-> None],
      team_roster |->
        [url |-> "https://statsapi.mlb.com/api/{ver}/teams/{teamId}/roster",
         required_params |-> <<"teamId">>,
         all_params |-> <<"ver", "teamId", "rosterType", "season", "date",
                       "hydrate", "fields">>,
         notes |-> None],
      team_leaders |->
        [url |-> "https://statsapi.mlb.com/api/{ver}/teams/{teamId}/leaders",
         required_params |-> <<"teamId", "leaderCategories", "season">>,
         all_params |-> <<"ver", "teamId", "leaderCategories", "season",
                       "leaderGameTypes", "hydrate", "limit", "fields">>,
         notes |-> None],
      venues |->
        [url |-> "https://statsapi.mlb.com/api/{ver}/venues",
         required_params |-> <<"venueIds">>,
         all_params |-> <<"ver", "venueIds", "season", "hydrate",
                       "fields">>,
         notes |-> None] ]

\* mutant: server.py's literal left behind, without the venues endpoint
server_endpoints_without_venues ==
    [n \in DOMAIN tools_endpoints \ {"venues"} |-> tools_endpoints[n]]

\* the `endpoints` literal of server.py
server_endpoints ==
    [
      attendance |->
        [url |-> "https://statsapi.mlb.com/api/{ver}/attendance",
         required_params |-> <<"teamId", "leagueId", "leagueListId">>,
         all_params |-> <<"ver", "teamId", "leagueId", "season", "date",
                       "leagueListId", "gameType", "fields">>,
         notes |-> None],
      awards |->
        [url |-> "https://statsapi.mlb.com/api/{ver}/awards{awardId}{recipients}",
         required_params |-> <<>>,
         all_params |-> <<"ver", "awardId", "recipients", "sportId",
                       "leagueId", "season", "hydrate", "fields">>,
         notes |-> "Call awards endpoint with no parameters to return a list of awardIds."],
      conferences |->
        [url |-> "https://statsapi.mlb.com/api/{ver}/conferences",
         required_params |-> <<>>,
         all_params |-> <<"ver", "conferenceId", "season", "fields">>,
         notes |-> None],
      divisions |->
        [url |-> "https://statsapi.mlb.com/api/{ver}/divisions",
         required_params |-> <<>>,
         all_params |-> <<"ver", "divisionId", "leagueId", "sportId",
                       "season">>,
         notes |-> "Call divisions endpoint with no parameters to return a list of divisions."],
      draft |->
        [url |-> "https://statsapi.mlb.com/api/{ver}/draft{prospects}{year}{latest}",
         required_params |-> <<>>,
         all_params |-> <<"ver", "prospects", "year", "latest", "limit",
                       "fields", "round", "name", "school", "state",
                       "country", "position", "teamId", "playerId",
                       "bisPlayerId">>,
         notes |-> "No query parameters are honored when 'latest' endpoint is queried (year is still required). Prospects and Latest cannot be used together."],
      game |->
        [url |-> "https://statsapi.mlb.com/api/{ver}/game/{gamePk}/feed/live",
         required_params |-> <<"gamePk">>,
         all_params |-> <<"ver", "gamePk", "timecode", "hydrate",
                       "fields">>,
         notes |-> None],
      game_diff |->
        [url |-> "https://statsapi.mlb.com/api/{ver}/game/{gamePk}/feed/live/diffPatch",
         required_params |-> <<"gamePk", "startTimecode", "endTimecode">>,
         all_params |-> <<"ver", "gamePk", "startTimecode", "endTimecode">>,
         notes |-> None],
      game_timestamps |->
        [url |-> "https://statsapi.mlb.com/api/{ver}/game/{gamePk}/feed/live/timestamps",
         required_params |-> <<"gamePk">>,
         all_params |-> <<"ver", "gamePk">>,
         notes |-> None],
      game_changes |->
        [url |-> "https://statsapi.mlb.com/api/{ver}/game/changes",
         required_params |-> <<"updatedSince">>,
         all_params |-> <<"ver", "updatedSince", "sportId", "gameType",
                       "season", "fields">>,
         notes |-> None],
      game_contextMetrics |->
        [url |-> "https://statsapi.mlb.com/api/{ver}/game/{gamePk}/contextMetrics",
         required_params |-> <<"gamePk">>,
         all_params |-> <<"ver", "gamePk", "timecode", "fields">>,
         notes |-> None],
      game_winProbability |->
        [url |-> "https://statsapi.mlb.com/api/{ver}/game/{gamePk}/winProbability",
         required_params |-> <<"gamePk">>,
         all_params |-> <<"ver", "gamePk", "timecode", "fields">>,
         notes |-> "If you only want the current win probability for each team, try the game_contextMetrics endpoint instead."],
      game_boxscore |->
        [url |-> "https://statsapi.mlb.com/api/{ver}/game/{gamePk}/boxscore",
         required_params |-> <<"gamePk">>,
         all_params |-> <<"ver", "gamePk", "timecode", "fields">>,
         notes |-> None],
      game_content |->
        [url |-> "https://statsapi.mlb.com/api/{ver}/game/{gamePk}/content",
         required_params |-> <<"gamePk">>,
         all_params |-> <<"ver", "gamePk", "highlightLimit">>,
         notes |-> None],
      game_linescore |->
        [url |-> "https://statsapi.mlb.com/api/{ver}/game/{gamePk}/linescore",
         required_params |-> <<"gamePk">>,
         all_params |-> <<"ver", "gamePk", "timecode", "fields">>,
         notes |-> None],
      game_playByPlay |->
        [url |-> "https://statsapi.mlb.com/api/{ver}/game/{gamePk}/playByPlay",
         required_params |-> <<"gamePk">>,
         all_params |-> <<"ver", "gamePk", "timecode", "fields">>,
         notes |-> None],
      people |->
        [url |-> "https://statsapi.mlb.com/api/{ver}/people",
         required_params |-> <<"personIds">>,
         all_params |-> <<"ver", "personIds", "hydrate", "fields">>,
         notes |-> None],
      person |->
        [url |-> "https://statsapi.mlb.com/api/{ver}/people/{personId}",
         required_params |-> <<"personId">>,
         all_params |-> <<"ver", "personId", "hydrate", "fields">>,
         notes |-> None],
      person_stats |->
        [url |-> "https://statsapi.mlb.com/api/{ver}/people/{personId}/stats/game/{gamePk}",
         required_params |-> <<"personId", "gamePk">>,
         all_params |-> <<"ver", "personId", "gamePk", "fields">>,
         notes |-> "Specify 'current' instead of a gamePk for a player's current game stats."],
      schedule |->
        [url |-> "https://statsapi.mlb.com/api/{ver}/schedule",
         required_params |-> <<"sportId or gamePk or gamePks">>,
         all_params |-> <<"ver", "scheduleType", "eventTypes", "hydrate",
                       "teamId", "leagueId", "sportId", "gamePk",
                       "gamePks", "venueIds", "gameTypes", "date",
                       "startDate", "endDate", "opponentId", "fields",
                       "season">>,
         notes |-> None],
      standings |->
        [url |-> "https://statsapi.mlb.com/api/{ver}/standings",
         required_params |-> <<"leagueId">>,
         all_params |-> <<"ver", "leagueId", "season", "standingsTypes",
                       "date", "hydrate", "fields">>,
         notes |-> None],
      stats |->
        [url |-> "https://statsapi.mlb.com/api/{ver}/stats",
         required_params |-> <<"stats", "group">>,
         all_params |-> <<"ver", "stats", "playerPool", "position",
                       "teamId", "leagueId", "limit", "offset", "group",
                       "gameType", "season", "sportIds", "sortStat",
                       "order", "hydrate", "fields", "personId", "metrics",
                       "startDate", "endDate">>,
         notes |-> "If no limit is specified, the response will be limited to 50 records."],
      stats_leaders |->
        [url |-> "https://statsapi.mlb.com/api/{ver}/stats/leaders",
         required_params |-> <<"leaderCategories">>,
         all_params |-> <<"ver", "leaderCategories", "playerPool",
                       "leaderGameTypes", "statGroup", "season",
                       "leagueId", "sportId", "hydrate", "limit", "fields",
                       "statType">>,
         notes |-> "If excluding season parameter to get all time leaders, include statType=statsSingleSeason or you will likely not get any results."],
      teams |->
        [url |-> "https://statsapi.mlb.com/api/{ver}/teams",
         required_params |-> <<>>,
         all_params |-> <<"ver", "season", "activeStatus", "leagueIds",
                       "sportId", "sportIds", "gameType", "hydrate",
                       "fields">>,
         notes |-> None],
      team |->
        [url |-> "https://statsapi.mlb.com/api/{ver}/teams/{teamId}",
         required_params |-> <<"teamId">>,
         all_params |-> <<"ver", "teamId", "season", "sportId", "hydrate",
                       "fields">>,
         notes |-> None],
      team_roster |->
        [url |-> "https://statsapi.mlb.com/api/{ver}/teams/{teamId}/roster",
         required_params |-> <<"teamId">>,
         all_params |-> <<"ver", "teamId", "rosterType", "season", "date",
                       "hydrate", "fields">>,
         notes |-> None],
      team_leaders |->
        [url |-> "https://statsapi.mlb.com/api/{ver}/teams/{teamId}/leaders",
         required_params |-> <<"teamId", "leaderCategories", "season">>,
         all_params |-> <<"ver", "teamId", "leaderCategories", "season",
                       "leaderGameTypes", "hydrate", "limit", "fields">>,
         notes |-> None],
      venues |->
        [url |-> "https://statsapi.mlb.com/api/{ver}/venues",
         required_params |-> <<"venueIds">>,
         all_params |-> <<"ver", "venueIds", "season", "hydrate",
                       "fields">>,
         notes |-> None] ]

\* the dict literals of the try block cannot raise: the function returns
get_available_endpoints_returns ==
    Return("dict",
        [endpoints |-> server_endpoints,
         usage_note |-> "Use these endpoints with the get_stats tool by specifying the endpoint name and required parameters",
         example |-> [endpoint |-> "teams", params |-> [sportId |-> "1"]]])

\* the one tool that calls no provider
get_available_endpoints ==
    /\ pc = "idle"
    /\ pc' = "done"
    /\ call' = [op |-> "get_available_endpoints", args |-> EmptyDict]
    /\ request' = NoRequest
    /\ response' = NoResponse
    /\ outcome' = get_available_endpoints_returns
    /\ log' = <<>>
    /\ sent' = <<>>
    /\ UNCHANGED <<clock, tools, inbox, earlier, logging>>

-----------------------------------------------------------------------------
(* tools/mlb_statsapi_tools.py: the adapters server.py does not define *)

get_game_scoring_play_data_returns(game_id, resp) ==
    IF resp.kind = "ok"
    THEN Return(resp.type, resp.value)
    ELSE Return("dict", [error |-> resp.msg, game_id |-> game_id])

get_game_scoring_play_data(game_id) ==
    /\ pc = "idle"
    /\ \E resp \in MappingResponses :
        Invocation("get_game_scoring_play_data", [game_id |-> game_id],
            Req("statsapi.game_scoring_play_data", <<game_id>>, EmptyDict),
            resp,
            get_game_scoring_play_data_returns(game_id, resp),
            IF resp.kind = "ok" THEN <<>>
            ELSE <<LogError(<<"Error retrieving scoring play data for game ID ",
                              game_id, ": ", resp.msg>>)>>)

-----------------------------------------------------------------------------
(* tools/mlb_statsapi_tools.py: get_notes *)

\* A text is a sequence of lines (what notes_text.split("\n") yields) and a
\* line is a sequence of pieces: the words, and each separator the parser
\* looks at (":", " ", "[", "]", "'", ", ", ".") as a piece of its own.  The
\* string methods below act on the pieces as str methods act on characters.

\* repr() of a Python list of strings
RECURSIVE ListRepr(_)
ListRepr(names) ==
    IF names = <<>> THEN <<"[", "]">>
    ELSE IF Len(names) = 1 THEN <<"[", "'", names[1], "'", "]">>
    ELSE <<"[", "'", names[1], "'", ", ">> \o Tail(ListRepr(Tail(names)))

\* The text statsapi.notes(endpoint) builds for a known endpoint: every
\* sentence ends with ". ", the required path parameters carry the remark
\* "(note: ver will be included by default)", and the required query
\* parameters are a list of lists or the word None.
NotesOf(endpoint, path, required_path, query, required_query) ==
    << <<"Endpoint", ":", " ", endpoint, " ">>,
       <<"All path parameters", ":", " ">> \o ListRepr(path) \o <<".", " ">>,
       <<"Required path parameters", " ", "(note", ":", " ",
         "ver will be included by default)", ":", " ">>
            \o ListRepr(required_path) \o <<".", " ">>,
       <<"All query parameters", ":", " ">> \o ListRepr(query) \o <<".", " ">>,
       <<"Required query parameters", ":", " ">>
            \o (IF required_query = None THEN <<"None">>
                ELSE <<"[">> \o ListRepr(required_query) \o <<"]">>)
            \o <<".", " ">>,
       <<"The hydrate function", " is supported by this endpoint.">>,
       <<>> >>

\* what the provider answers: the text of a known endpoint with and without
\* required query parameters, its one-line answer for an unknown endpoint,
\* and a text whose lines hold nothing but the label and the list
NotesTexts ==
    { NotesOf("game", <<"ver", "gamePk">>, <<"ver", "gamePk">>,
              <<"timecode", "hydrate">>, None),
      NotesOf("standings", <<"ver">>, <<"ver">>,
              <<"leagueId", "hydrate">>, <<"leagueId">>),
      << <<"Invalid endpoint specified", ".">> >>,
      << <<"All path parameters", ":", " ">> \o ListRepr(<<"ver", "gamePk">>),
         <<"Required path parameters", ":", " ">> \o ListRepr(<<"gamePk">>),
         <<"All query parameters", ":", " ">> \o ListRepr(<<"fields">>),
         <<"Required query parameters", ":", " ", "None">> >> }

NotesResponses == ProviderRaises \cup {Ok("str", t) : t \in NotesTexts}

\* str.split(sep)
RECURSIVE split(_, _)
split(s, sep) ==
    IF s = <<>> THEN << <<>> >>
    ELSE LET rest == split(Tail(s), sep)
         IN  IF Head(s) = sep THEN << <<>> >> \o rest
             ELSE << <<Head(s)>> \o rest[1] >> \o Tail(rest)

\* str.strip(chars), from the left and from the right
RECURSIVE lstrip(_, _)
lstrip(s, chars) ==
    IF s # <<>> /\ Head(s) \in chars THEN lstrip(Tail(s), chars) ELSE s

RECURSIVE rstrip(_, _)
rstrip(s, chars) ==
    IF s # <<>> /\ s[Len(s)] \in chars
    THEN rstrip(SubSeq(s, 1, Len(s) - 1), chars)
    ELSE s

strip(s, chars) == rstrip(lstrip(s, chars), chars)

\* line.split(":")[1].strip().strip("[]").replace("'", "").split(", ")
split_params(line) ==
    LET value == strip(strip(split(line, ":")[2], {" "}), {"[", "]"})
    IN  split(SelectSeq(value, LAMBDA x : x # "'"), ", ")

\* [p for p in params if p]
non_empty(params) == SelectSeq(params, LAMBDA p : p # <<>>)

\* one turn of the loop over the lines; `raised` holds the IndexError of
\* split(":")[1] on a line without a colon, which ends the loop
notes_line(result, raw) ==
    LET line == strip(raw, {" "})
        labelled(label) ==
            \E i \in 1..(Len(line) - 1) : line[i] = label /\ line[i + 1] = ":"
        params == split_params(line)
    IN  IF result.raised # None \/ line = <<>> THEN result
        ELSE IF labelled("All path parameters")
        THEN [result EXCEPT !.path_params = non_empty(params)]
        ELSE IF labelled("All query parameters")
        THEN [result EXCEPT !.query_params = non_empty(params)]
        ELSE IF \E i \in 1..Len(line) : line[i] = "Required path parameters"
        THEN IF Len(split(line, ":")) < 2
             THEN [result EXCEPT !.raised = "list index out of range"]
             ELSE [result EXCEPT !.required_params = @ \o non_empty(params)]
        ELSE IF labelled("Required query parameters")
        THEN IF params[1] # <<"None">>
             THEN [result EXCEPT !.required_params = @ \o non_empty(params)]
             ELSE result
        ELSE IF line[1] \in {"The hydrate function", "Call the endpoint"}
        THEN [result EXCEPT !.hints = @ \o <<line>>]
        ELSE result

RECURSIVE notes_lines(_, _)
notes_lines(result, lines) ==
    IF lines = <<>> THEN result
    ELSE notes_lines(notes_line(result, Head(lines)), Tail(lines))

get_notes_returns(endpoint, resp) ==
    IF resp.kind = "raise"
    THEN Return("dict", [error |-> resp.msg, endpoint |-> endpoint])
    ELSE LET r == notes_lines(
                    [raised |-> None, required_params |-> <<>>, hints |-> <<>>,
                     path_params |-> <<>>, query_params |-> <<>>], resp.value)
         IN  IF r.raised # None
             THEN Return("dict", [error |-> r.raised, endpoint |-> endpoint])
             ELSE Return("dict",
                    [endpoint |-> endpoint,
                     required_params |-> r.required_params,
                     all_params |-> r.path_params \o r.query_params,
                     hints |-> r.hints,
                     path_params |-> r.path_params,
                     query_params |-> r.query_params])

get_notes(endpoint) ==
    /\ pc = "idle"
    /\ \E resp \in NotesResponses :
        LET out == get_notes_returns(endpoint, resp)
        IN  Invocation("get_notes", [endpoint |-> endpoint],
                Req("statsapi.notes", <<endpoint>>, EmptyDict),
                resp,
                out,
                IF "error" \in DOMAIN out.value
                THEN <<LogError(<<"Error retrieving notes for endpoint ",
                                  endpoint, ": ", out.value.error>>)>>
                ELSE <<>>)

-----------------------------------------------------------------------------
(* tools/mlb_statsapi_tools.py: its definitions of the ten tools of server.py *)

\* The keyword arguments the definition of `op` in the tools file passes to
\* its provider function, for the arguments `a`: the candidate entries, and
\* of them the ones the body's if statements let through.
tools_kwargs(op, a) ==
    LET kept(d, always) ==
            [k \in {x \in DOMAIN d : x \in always \/ d[x] # None} |-> d[k]]
    IN  CASE op = "get_schedule" ->
                kept([date |-> a.date, team |-> a.team_id, gameType |-> a.game_type,
                      sportId |-> IF a.sport_id = "1" THEN None ELSE a.sport_id], {})
          [] op = "get_player_stats" ->
                kept([personId |-> a.player_id, group |-> a.group, type |-> a.stats,
                      season |-> a.season], {"personId", "group", "type"})
          [] op = "get_standings" ->
                kept([standingsTypes |-> a.standings_types, leagueId |-> a.league_id,
                      divisionId |-> a.division_id, season |-> a.season],
                     {"standingsTypes"})
          [] op = "get_team_leaders" ->
                kept([limit |-> IF a.limit = None THEN "10" ELSE a.limit,
                      season |-> a.season], {"limit", "season"})
          [] op = "get_boxscore" ->
                kept([timecode |-> IF a.timecode = "" THEN None ELSE a.timecode], {})
          [] op = "get_game_pace" ->
                kept([sportId |-> "1", season |-> a.season, teamId |-> a.team_id],
                     {"sportId"})
          [] op = "get_meta" ->
                kept([fields |-> IF a.fields = "" THEN None ELSE a.fields], {})
          [] OTHER -> EmptyDict

\* the provider call of the tools file's definition of `op`
tools_request(op, a) ==
    CASE op = "get_stats" ->
            Req("statsapi.get", <<a.endpoint, a.params>>, EmptyDict)
      [] op = "get_schedule" -> Req("statsapi.schedule", <<>>, tools_kwargs(op, a))
      [] op = "get_player_stats" ->
            Req("statsapi.player_stat_data", <<>>, tools_kwargs(op, a))
      [] op = "get_standings" ->
            Req("statsapi.standings_data", <<>>, tools_kwargs(op, a))
      [] op = "get_team_leaders" ->
            Req("statsapi.team_leaders", <<a.team_id, a.leader_category>>,
                tools_kwargs(op, a))
      [] op = "lookup_player" -> Req("statsapi.lookup_player", <<a.name>>, EmptyDict)
      [] op = "get_boxscore" ->
            Req("statsapi.boxscore", <<a.game_id>>, tools_kwargs(op, a))
      [] op = "get_game_pace" ->
            Req("statsapi.game_pace_data", <<>>, tools_kwargs(op, a))
      [] op = "get_meta" -> Req("statsapi.meta", <<a.type_name>>, tools_kwargs(op, a))
      [] op = "get_available_endpoints" -> NoRequest

\* what the tools file's definition of `op` returns: the value of its try
\* block when the provider answered, the mapping of its except clause when
\* the provider raised
tools_returns(op, a, resp) ==
    IF op = "get_available_endpoints"
    THEN Return("dict",
            [endpoints |-> tools_endpoints,
             usage_note |-> "Use these endpoints with the get_stats tool by specifying the endpoint name and required parameters",
             example |-> [endpoint |-> "teams", params |-> [sportId |-> "1"]]])
    ELSE IF resp.kind = "raise"
    THEN Return("dict",
            CASE op = "get_stats" -> [error |-> resp.msg, params |-> a.params]
              [] op \in {"get_schedule", "get_player_stats", "get_standings",
                         "get_game_pace"} ->
                    [error |-> resp.msg, params_sent |-> tools_kwargs(op, a)]
              [] op = "get_team_leaders" ->
                    [error |-> resp.msg, team_id |-> a.team_id,
                     leader_category |-> a.leader_category]
              [] op = "lookup_player" -> [error |-> resp.msg, name |-> a.name]
              [] op = "get_boxscore" -> [error |-> resp.msg, game_id |-> a.game_id]
              [] op = "get_meta" ->
                    [error |-> resp.msg, type |-> a.type_name, fields |-> a.fields])
    ELSE CASE op = "get_team_leaders" ->
                Return("dict",
                    [teamId |-> a.team_id, leaderCategory |-> a.leader_category,
                     season |-> a.season, results |-> resp.value,
                     teamLeaders |-> "True"])
           [] op = "lookup_player" -> Return("dict", [people |-> resp.value])
           [] op = "get_boxscore" ->
                Return("dict",
                    [game_id |-> a.game_id, boxscore |-> resp.value,
                     success |-> "True"])
           [] OTHER -> Return(resp.type, resp.value)

-----------------------------------------------------------------------------
(* tools/statcast_tools.py: pandas tables *)

\* A DataFrame is its ordered column list and its rows, one mapping from
\* column to cell per index entry.  Each column has a dtype: a float64 column
\* holds numbers and NaN, an object column holds strings, None and NaN.
NaN == "NaN"

Columns == <<"launch_speed", "events">>

Dtype(col) == IF col = "launch_speed" THEN "float64" ELSE "object"

CellsOf(col) ==
    IF Dtype(col) = "float64" THEN {NaN, "98.6"} ELSE {None, NaN, "", "single"}

AllCells == UNION {CellsOf(Columns[i]) : i \in 1..Len(Columns)}

ColumnLists == {SubSeq(Columns, 1, k) : k \in 0..Len(Columns)}

ColSet(cols) == {cols[i] : i \in 1..Len(cols)}

RowsOver(cols) ==
    {r \in [ColSet(cols) -> AllCells] : \A c \in ColSet(cols) : r[c] \in CellsOf(c)}

DataFrames ==
    UNION {{[columns |-> cols, rows |-> rs] : rs \in SeqUpTo(RowsOver(cols), MaxRows)} :
           cols \in ColumnLists}

\* what a pybaseball call can answer: it raises, or returns None or a table
StatcastResponses ==
    ProviderRaises \cup {Ok("NoneType", None)} \cup {Ok("DataFrame", t) : t \in DataFrames}

\* a failure of df.copy(), where(), replace() or to_dict(): None when they succeed
SerFailures == {None, "cannot serialize"}

\* df.empty: some axis has length 0
df_empty(t) == Len(t.rows) = 0 \/ Len(t.columns) = 0

\* df.where(pd.notnull(df), None), on one cell.  pandas (1.3 and later) turns
\* other=None into the column's own missing value unless the dtype is object,
\* so the NaN of a float64 column stays NaN; an object column gets None.
where_notnull(col, cell) ==
    IF cell \in {NaN, None}
    THEN IF Dtype(col) = "object" THEN None ELSE NaN
    ELSE cell

\* df.replace("", None), on one cell (pandas 1.4 and later honour the explicit
\* None; a float64 column holds no string and is left as it is)
replace_empty(col, cell) == IF cell = "" THEN None ELSE cell

\* mutant: the records emitted last row first
to_records_reversed(t) ==
    [i \in 1..Len(t.rows) |->
        [c \in ColSet(t.columns) |->
            replace_empty(c, where_notnull(c, t.rows[Len(t.rows) + 1 - i][c]))]]

\* df_clean.to_dict(orient="records")
to_records(t) ==
    [i \in 1..Len(t.rows) |->
        [c \in ColSet(t.columns) |->
            replace_empty(c, where_notnull(c, t.rows[i][c]))]]

\* mutant: the success result built without its columns entry
_convert_without_columns(df, ser) ==
    IF df.type = "NoneType" \/ df_empty(df.value)
    THEN [data |-> <<>>, count |-> 0]
    ELSE IF ser = None
         THEN LET records == to_records(df.value)
              IN  [data |-> records, count |-> Len(records)]
         ELSE [data |-> <<>>, count |-> 0,
               error |-> <<"DataFrame serialization failed: ", ser>>]

_convert_dataframe_to_dict(df, ser) ==
    IF df.type = "NoneType" \/ df_empty(df.value)
    THEN [data |-> <<>>, count |-> 0]
    ELSE IF ser = None
         THEN LET records == to_records(df.value)
              IN  [data |-> records, count |-> Len(records),
                   columns |-> df.value.columns]
         ELSE [data |-> <<>>, count |-> 0,
               error |-> <<"DataFrame serialization failed: ", ser>>]

-----------------------------------------------------------------------------
(* tools/statcast_tools.py: the adapters *)

\* (now - timedelta(days=1)).strftime("%Y-%m-%d")
Yesterday(now) ==
    CASE now = "2023-04-02" -> "2023-04-01"
      [] now = "2024-03-01" -> "2024-02-29"
      [] now = "2025-01-01" -> "2024-12-31"

\* mutant: the default computed without `- timedelta(days=1)`
default_start_dt_today(start_dt, now) == IF start_dt = None THEN now ELSE start_dt

default_start_dt(start_dt, now) == IF start_dt = None THEN Yesterday(now) ELSE start_dt

\* The body every get_statcast_* adapter runs on the provider's answer:
\* len(df) == 0 raises, the conversion returns, and the except clause wraps
\* whatever was raised into Exception(error_msg), error_msg = prefix + str(e).
\* mutant: the adapter without its `if len(df) == 0: raise` check
statcast_outcome_no_len_check(prefix, resp, ser) ==
    IF resp.kind = "raise"
    THEN Raise(prefix \o <<resp.msg>>)
    ELSE Return("dict", _convert_dataframe_to_dict(resp, ser))


statcast_outcome(prefix, resp, ser) ==
    IF resp.kind = "raise"
    THEN Raise(prefix \o <<resp.msg>>)
    ELSE IF resp.type = "NoneType"
         THEN Raise(prefix \o <<"object of type 'NoneType' has no len()">>)
         ELSE IF Len(resp.value.rows) = 0
              THEN Raise(prefix \o <<"No statcast data found">>)
              ELSE Return("dict", _convert_dataframe_to_dict(resp, ser))

statcast_log(out) == IF out.kind = "raise" THEN <<LogError(out.msg)>> ELSE <<>>

StatcastCall(op, args, req, prefix) ==
    /\ pc = "idle"
    /\ \E resp \in StatcastResponses, ser \in SerFailures :
        LET out == statcast_outcome(prefix, resp, ser)
        IN  Invocation(op, args, req, Put(resp, "ser", ser), out, statcast_log(out))

StartDts == {None, "2023-04-01"}
EndDts == {None, "2023-04-03"}
Teams == {None, "NYY"}
Years == {"2023", "1800"}
MinCounts == {None, "50"}
ArsenalTypes == {"avg_speed", "invalid"}

get_statcast_data_prefix == <<"Error retrieving Statcast data: ">>

get_statcast_data(start_dt, end_dt, team, verbose, parallel) ==
    StatcastCall("get_statcast_data",
            [start_dt |-> start_dt, end_dt |-> end_dt, team |-> team,
             verbose |-> verbose, parallel |-> parallel],
            Req("statcast",
                <<default_start_dt(start_dt, clock), end_dt, team, verbose, parallel>>,
                EmptyDict),
            get_statcast_data_prefix)

get_statcast_batter_data_prefix(player_id) ==
    <<"Error retrieving Statcast data for batter ", player_id, ": ">>

get_statcast_batter_data(player_id, start_dt, end_dt) ==
    StatcastCall("get_statcast_batter_data",
            [player_id |-> player_id, start_dt |-> start_dt, end_dt |-> end_dt],
            Req("statcast_batter",
                <<default_start_dt(start_dt, clock), end_dt, player_id>>, EmptyDict),
            get_statcast_batter_data_prefix(player_id))

get_statcast_pitcher_data_prefix(player_id) ==
    <<"Error retrieving Statcast data for pitcher ", player_id, ": ">>

get_statcast_pitcher_data(player_id, start_dt, end_dt) ==
    StatcastCall("get_statcast_pitcher_data",
            [player_id |-> player_id, start_dt |-> start_dt, end_dt |-> end_dt],
            Req("statcast_pitcher",
                <<default_start_dt(start_dt, clock), end_dt, player_id>>, EmptyDict),
            get_statcast_pitcher_data_prefix(player_id))

get_statcast_batter_exitvelo_barrels(year, minBBE) ==
    StatcastCall("get_statcast_batter_exitvelo_barrels",
        [year |-> year, minBBE |-> minBBE],
        Req("statcast_batter_exitvelo_barrels", <<year, minBBE>>, EmptyDict),
        <<"Error retrieving batter exit velocity data for ", year, ": ">>)

get_statcast_pitcher_exitvelo_barrels(year, minBBE) ==
    StatcastCall("get_statcast_pitcher_exitvelo_barrels",
        [year |-> year, minBBE |-> minBBE],
        Req("statcast_pitcher_exitvelo_barrels", <<year, minBBE>>, EmptyDict),
        <<"Error retrieving pitcher exit velocity data for ", year, ": ">>)

get_statcast_batter_expected_stats(year, minPA) ==
    StatcastCall("get_statcast_batter_expected_stats",
        [year |-> year, minPA |-> minPA],
        Req("statcast_batter_expected_stats", <<year, minPA>>, EmptyDict),
        <<"Error retrieving batter expected stats for ", year, ": ">>)

get_statcast_pitcher_expected_stats(year, minPA) ==
    StatcastCall("get_statcast_pitcher_expected_stats",
        [year |-> year, minPA |-> minPA],
        Req("statcast_pitcher_expected_stats", <<year, minPA>>, EmptyDict),
        <<"Error retrieving pitcher expected stats for ", year, ": ">>)

get_statcast_batter_percentile_ranks(year) ==
    StatcastCall("get_statcast_batter_percentile_ranks", [year |-> year],
        Req("statcast_batter_percentile_ranks", <<year>>, EmptyDict),
        <<"Error retrieving batter percentile ranks for ", year, ": ">>)

get_statcast_pitcher_percentile_ranks(year) ==
    StatcastCall("get_statcast_pitcher_percentile_ranks", [year |-> year],
        Req("statcast_pitcher_percentile_ranks", <<year>>, EmptyDict),
        <<"Error retrieving pitcher percentile ranks for ", year, ": ">>)

get_statcast_batter_pitch_arsenal(year, minPA) ==
    StatcastCall("get_statcast_batter_pitch_arsenal",
        [year |-> year, minPA |-> minPA],
        Req("statcast_batter_pitch_arsenal", <<year, minPA>>, EmptyDict),
        <<"Error retrieving batter pitch arsenal data for ", year, ": ">>)

get_statcast_pitcher_pitch_arsenal(year, minP, arsenal_type) ==
    StatcastCall("get_statcast_pitcher_pitch_arsenal",
        [year |-> year, minP |-> minP, arsenal_type |-> arsenal_type],
        Req("statcast_pitcher_pitch_arsenal", <<year, minP, arsenal_type>>, EmptyDict),
        <<"Error retrieving pitcher pitch arsenal data for ", year, ": ">>)

get_statcast_single_game(game_pk) ==
    StatcastCall("get_statcast_single_game", [game_pk |-> game_pk],
        Req("statcast_single_game", <<game_pk>>, EmptyDict),
        <<"Error retrieving Statcast data for game ", game_pk, ": ">>)

-----------------------------------------------------------------------------
(* _convert_dataframe_to_dict called on its own, on any table *)

\* `call.args.df` is the table as it was when the routine was called and
\* `response` is the caller's table object, which the routine receives by
\* reference (in the adapters it is the provider's answer).
ConvertInputs ==
    {[df |-> d, ser |-> s] :
        d \in {Ok("NoneType", None)} \cup {Ok("DataFrame", t) : t \in DataFrames},
        s \in SerFailures}

InitConvert ==
    /\ pc = "called"
    /\ call \in {[op |-> "_convert_dataframe_to_dict", args |-> a] : a \in ConvertInputs}
    /\ request = NoRequest
    /\ response = call.args.df
    /\ outcome = NoOutcome
    /\ log = <<>>
    /\ sent = <<>>
    /\ clock = Days[1]
    /\ tools = Registered
    /\ inbox = {}
    /\ earlier = NoEarlier
    /\ logging = LoggingAtImport

\* mutant: the routine raising on an empty or absent table
convert_raises_on_empty(df, ser) ==
    IF df.type = "NoneType" \/ df_empty(df.value)
    THEN Raise(<<"No data to convert">>)
    ELSE Return("dict", _convert_dataframe_to_dict(df, ser))

\* mutant: the routine without its try/except, so that what pandas raises
\* reaches the caller
convert_without_except(df, ser) ==
    IF ~(df.type = "NoneType" \/ df_empty(df.value)) /\ ser # None
    THEN Raise(<<ser>>)
    ELSE Return("dict", _convert_dataframe_to_dict(df, ser))

\* the routine has no raise statement and catches what pandas raises: every
\* path is a return
convert_returns(df, ser) == Return("dict", _convert_dataframe_to_dict(df, ser))

\* mutant: where() and replace() applied to the caller's table itself
\* (inplace=True on df, no copy)
df_cleaned_in_place(df, ser) ==
    IF df.type = "NoneType" \/ df_empty(df.value) \/ ser # None
    THEN df
    ELSE Ok("DataFrame", [columns |-> df.value.columns, rows |-> to_records(df.value)])

\* The caller's table after the call.  The routine works on df_clean =
\* df.copy() (a deep copy), and where() and replace() are called without
\* inplace and return new frames bound to df_clean; df itself is only read
\* (df.empty, df.copy(), df.columns.tolist()).
df_after_convert(df, ser) == df

ConvertCall ==
    /\ pc = "called"
    /\ pc' = "done"
    /\ outcome' = convert_returns(call.args.df, call.args.ser)
    /\ response' = df_after_convert(response, call.args.ser)
    /\ UNCHANGED <<call, request, log, sent, clock, tools, inbox, earlier, logging>>

NextConvert == ConvertCall

SpecConvert == InitConvert /\ [][NextConvert]_vars

-----------------------------------------------------------------------------

Next ==
    \/ Deliver
    \/ Tick
    \/ \E endpoint \in Endpoints, params \in ParamDicts : get_stats(endpoint, params)
    \/ \E date \in Dates, team_id \in TeamIds, sport_id \in SportIds,
          game_type \in GameTypes :
            get_schedule(date, team_id, sport_id, game_type)
    \/ \E player_id \in PlayerIds, group \in Groups, season \in Seasons,
          stats \in StatTypes :
            get_player_stats(player_id, group, season, stats)
    \/ \E league_id \in LeagueIds, division_id \in DivisionIds, season \in Seasons,
          standings_types \in StandingsTypes :
            get_standings(league_id, division_id, season, standings_types)
    \/ \E team_id \in {"143", "0"}, leader_category \in LeaderCategories,
          season \in Seasons, leader_game_type \in LeaderGameTypes,
          limit \in Limits :
            get_team_leaders(team_id, leader_category, season, leader_game_type, limit)
    \/ \E name \in Names : lookup_player(name)
    \/ \E game_id \in GameIds, timecode \in Timecodes : get_boxscore(game_id, timecode)
    \/ \E season \in Seasons, team_id \in TeamIds : get_game_pace(season, team_id)
    \/ \E type_name \in TypeNames, fields \in FieldsValues : get_meta(type_name, fields)
    \/ get_available_endpoints
    \/ \E game_id \in GameIds : get_game_scoring_play_data(game_id)
    \/ \E endpoint \in Endpoints : get_notes(endpoint)
    \/ \E start_dt \in StartDts, end_dt \in EndDts, team \in Teams,
          verbose \in Bools, parallel \in Bools :
            get_statcast_data(start_dt, end_dt, team, verbose, parallel)
    \/ \E player_id \in PlayerIds, start_dt \in StartDts, end_dt \in EndDts :
            get_statcast_batter_data(player_id, start_dt, end_dt)
    \/ \E player_id \in PlayerIds, start_dt \in StartDts, end_dt \in EndDts :
            get_statcast_pitcher_data(player_id, start_dt, end_dt)
    \/ \E year \in Years, minBBE \in MinCounts :
            get_statcast_batter_exitvelo_barrels(year, minBBE)
    \/ \E year \in Years, minBBE \in MinCounts :
            get_statcast_pitcher_exitvelo_barrels(year, minBBE)
    \/ \E year \in Years, minPA \in MinCounts :
            get_statcast_batter_expected_stats(year, minPA)
    \/ \E year \in Years, minPA \in MinCounts :
            get_statcast_pitcher_expected_stats(year, minPA)
    \/ \E year \in Years : get_statcast_batter_percentile_ranks(year)
    \/ \E year \in Years : get_statcast_pitcher_percentile_ranks(year)
    \/ \E year \in Years, minPA \in {"25", "50"} :
            get_statcast_batter_pitch_arsenal(year, minPA)
    \/ \E year \in Years, minP \in MinCounts, arsenal_type \in ArsenalTypes :
            get_statcast_pitcher_pitch_arsenal(year, minP, arsenal_type)
    \/ \E game_pk \in GameIds : get_statcast_single_game(game_pk)

Spec == Init /\ [][Next]_vars

-----------------------------------------------------------------------------
(* A caller that invokes an operation and then invokes it again with the   *)
(* same arguments, the upstream data set being the same both times         *)

CitedCalls ==
    { [op |-> "get_schedule",
       args |-> [date |-> "2023-07-14", team_id |-> "143", sport_id |-> "1",
                 game_type |-> None]],
      [op |-> "get_player_stats",
       args |-> [player_id |-> "592450", group |-> "hitting", season |-> "2023",
                 stats |-> "season"]] }
    \cup
    { [op |-> "get_statcast_data",
       args |-> [start_dt |-> s, end_dt |-> None, team |-> None,
                 verbose |-> "True", parallel |-> "True"]] : s \in StartDts }

\* the server looks the tool up by its name and calls it with the arguments
RunCited(c) ==
    \/ /\ c.op = "get_schedule"
       /\ get_schedule(c.args.date, c.args.team_id, c.args.sport_id, c.args.game_type)
    \/ /\ c.op = "get_player_stats"
       /\ get_player_stats(c.args.player_id, c.args.group, c.args.season, c.args.stats)
    \/ /\ c.op = "get_statcast_data"
       /\ get_statcast_data(c.args.start_dt, c.args.end_dt, c.args.team,
                            c.args.verbose, c.args.parallel)

\* The outcome is sent as in Deliver; the caller keeps it, with the provider's
\* answer, to compare with the outcome of the repetition.
Remember ==
    /\ pc = "done"
    /\ earlier = NoEarlier
    /\ earlier' = [call |-> call, request |-> request, response |-> response,
                   outcome |-> outcome, log |-> log, clock |-> clock]
    /\ pc' = "idle"
    /\ call' = NoCall
    /\ request' = NoRequest
    /\ response' = NoResponse
    /\ outcome' = NoOutcome
    /\ log' = <<>>
    /\ sent' = <<>>
    /\ UNCHANGED <<clock, tools, inbox, logging>>

Repeat(c) ==
    /\ earlier = NoEarlier \/ c = earlier.call
    /\ RunCited(c)

\* the date changes between the invocation and its repetition
Midnight ==
    /\ earlier # NoEarlier
    /\ clock = earlier.clock
    /\ Tick

NextRepeat ==
    \/ Remember
    \/ Deliver
    \/ Midnight
    \/ \E c \in CitedCalls : Repeat(c)

InitRepeat == Init /\ clock = Days[1]

SpecRepeat == InitRepeat /\ [][NextRepeat]_vars

-----------------------------------------------------------------------------
(* Invocations processed concurrently.  The handlers are coroutines without *)
(* an await: once the event loop starts one it runs to its end, so that     *)
(* concurrency is the order in which the invocations received are started.  *)
(* An invocation is first run alone and its outcome kept; it is then run    *)
(* again while other invocations are in flight.                             *)

\* the operations of the invocations in flight beside the one observed
OtherOps == {"get_schedule", "get_player_stats"}

Receive(c) ==
    /\ Cardinality(inbox) < MaxInFlight
    /\ c \notin inbox
    /\ IF earlier = NoEarlier
       THEN pc = "idle" /\ inbox = {}
       ELSE c = earlier.call \/ c.op \in OtherOps
    /\ inbox' = inbox \cup {c}
    /\ UNCHANGED <<pc, call, request, response, outcome, log, sent, clock, tools, earlier, logging>>

NextConcurrent ==
    \/ \E c \in CitedCalls : Receive(c)
    \/ \E c \in inbox : RunCited(c)
    \/ Remember
    \/ Deliver

InitConcurrent == Init /\ clock = Days[1]

SpecConcurrent == InitConcurrent /\ [][NextConcurrent]_vars

-----------------------------------------------------------------------------
(* The logging set-up called any number of times, in a fresh interpreter *)

LoggerArgs == {None} \cup (LoggerNames \ {Root})

\* a module calls utils/logging_config.py's setup_logging
CallSetupLogging ==
    \E logger_name \in LoggerArgs, env \in Environments :
        /\ logging' = setup_logging(logging, logger_name, env)
        /\ UNCHANGED <<pc, call, request, response, outcome, log, sent, clock, tools,
                       inbox, earlier>>

\* server.py runs its own setup_logging
CallServerSetupLogging ==
    \E env \in Environments :
        /\ logging' = server_setup_logging(logging, env)
        /\ UNCHANGED <<pc, call, request, response, outcome, log, sent, clock, tools,
                       inbox, earlier>>

\* a module logs a record (logger.info, logger.error) through the logger
\* that setup_logging returned to it
LogThrough ==
    \E name \in logging.configured, levelno \in {20, 40} :
        /\ logging' = emit(logging, name, levelno)
        /\ UNCHANGED <<pc, call, request, response, outcome, log, sent, clock, tools,
                       inbox, earlier>>

NextLogging == CallSetupLogging \/ CallServerSetupLogging \/ LogThrough

InitLogging ==
    /\ pc = "idle"
    /\ call = NoCall
    /\ request = NoRequest
    /\ response = NoResponse
    /\ outcome = NoOutcome
    /\ log = <<>>
    /\ sent = <<>>
    /\ clock = Days[1]
    /\ tools = Registered
    /\ inbox = {}
    /\ earlier = NoEarlier
    /\ logging = FreshLogging

SpecLogging == InitLogging /\ [][NextLogging]_vars

-----------------------------------------------------------------------------
(* The claims *)

StatcastOps ==
    { "get_statcast_data", "get_statcast_batter_data", "get_statcast_pitcher_data",
      "get_statcast_batter_exitvelo_barrels", "get_statcast_pitcher_exitvelo_barrels",
      "get_statcast_batter_expected_stats", "get_statcast_pitcher_expected_stats",
      "get_statcast_batter_percentile_ranks", "get_statcast_pitcher_percentile_ranks",
      "get_statcast_batter_pitch_arsenal", "get_statcast_pitcher_pitch_arsenal",
      "get_statcast_single_game" }

PassThroughOps ==
    { "get_stats", "get_player_stats", "get_standings", "get_game_pace", "get_meta",
      "get_game_scoring_play_data" }

\* an invocation has ended and its provider call raised
ProviderFailed == pc = "done" /\ response.kind = "raise"

\* an invocation has ended and its provider call returned
ProviderAnswered == pc = "done" /\ response.kind = "ok"

\* the outcome is a returned dict with key k
ReturnsKey(k) ==
    outcome.kind = "return" /\ outcome.type = "dict" /\ k \in DOMAIN outcome.value

\* the outcome is a raised error whose message contains "Error in <op>"
RaisesErrorIn(op) ==
    /\ outcome.kind = "raise"
    /\ \E i \in 1..(Len(outcome.msg) - 1) :
          outcome.msg[i] = "Error in " /\ outcome.msg[i + 1] = op

\* C1: whenever the provider call of an operation raises, the caller receives
\* an error (not a normal result) whose message is
\* "Error in <operation_name>: <original_message>".
C1_ErrorInOperationName ==
    ProviderFailed =>
        /\ outcome.kind = "raise"
        /\ outcome.msg = <<"Error in ", call.op, ": ", response.msg>>

\* C2: whenever the provider call of an operation fails, the outcome is either
\* a raised error whose message contains "Error in <operation_name>" or a
\* returned mapping with an `error` key.
C2_FailureSurfaced ==
    ProviderFailed => (RaisesErrorIn(call.op) \/ ReturnsKey("error"))

\* C3: when the provider of a get_statcast_* adapter returns a table with zero
\* rows, or no table at all, the adapter reports a failure: it raises and never
\* returns a result.
C3_ZeroRowsIsFailure ==
    ( /\ ProviderAnswered
      /\ call.op \in StatcastOps
      /\ \/ response.type = "NoneType"
         \/ response.type = "DataFrame" /\ Len(response.value.rows) = 0 )
    => outcome.kind = "raise"

C3_Witness ==
    /\ ProviderAnswered
    /\ call.op = "get_statcast_single_game"
    /\ response.type = "DataFrame"
    /\ Len(response.value.rows) = 0
    /\ Len(response.value.columns) = 2
    /\ outcome.kind = "raise"
    /\ Contains(outcome.msg, "No statcast data found")

\* _convert_dataframe_to_dict has returned or raised on its input
Converted == pc = "done" /\ call.op = "_convert_dataframe_to_dict"

EmptyOrAbsent(df) == df.type = "NoneType" \/ df_empty(df.value)

\* C4 as claimed: given no table or an empty table, _convert_dataframe_to_dict
\* raises and does not return an empty success result.
C4_ConvertRaisesOnEmpty ==
    (Converted /\ EmptyOrAbsent(call.args.df)) => outcome.kind = "raise"

\* C4 as amended: given no table or an empty table, _convert_dataframe_to_dict
\* does not raise; it returns the mapping {"data": [], "count": 0}.
C4_ConvertReturnsEmptyResult ==
    (Converted /\ EmptyOrAbsent(call.args.df)) =>
        /\ outcome.kind = "return"
        /\ outcome.value = [data |-> <<>>, count |-> 0]

C4_Witness ==
    /\ Converted
    /\ call.args.df.type = "DataFrame"
    /\ Len(call.args.df.value.rows) = 0
    /\ Len(call.args.df.value.columns) = 1
    /\ outcome.kind = "return"
    /\ outcome.value.count = 0

\* the cells the conversion is to normalise: null/missing, or the empty string
IsAbsent(cell) == cell \in {NaN, None, ""}

\* C5: for a non-empty table that serialises, every null/missing cell and
\* every empty-string cell is the same "absent" marker (None) in the output
\* records, count is the number of records and columns is the input's column
\* list in its order.
C5_Normalized ==
    ( /\ Converted
      /\ ~EmptyOrAbsent(call.args.df)
      /\ call.args.ser = None )
    => LET t == call.args.df.value
           r == outcome.value
       IN  /\ outcome.kind = "return"
           /\ r.count = Len(r.data)
           /\ r.columns = t.columns
           /\ Len(r.data) = Len(t.rows)
           /\ \A i \in 1..Len(t.rows) : \A c \in ColSet(t.columns) :
                 IsAbsent(t.rows[i][c]) => r.data[i][c] = None

\* C6: lookup_player with a name that matches no player returns a mapping with
\* an empty list under `people`, or a mapping with an `error` key; it never
\* raises.
C6_LookupNoMatchIsStructured ==
    ( /\ pc = "done"
      /\ call.op = "lookup_player"
      /\ \/ response.kind = "raise"
         \/ response.kind = "ok" /\ Len(response.value) = 0 )
    => \/ ReturnsKey("people") /\ outcome.value.people = <<>>
       \/ ReturnsKey("error")

C6_Witness ==
    /\ ProviderAnswered
    /\ call.op = "lookup_player"
    /\ call.args.name = "Invalid Player Name 123"
    /\ Len(response.value) = 0
    /\ outcome = Return("dict", [people |-> <<>>])

\* C7: lookup_player with a name for which the provider finds no player yields
\* an error response whose text contains "Error in lookup_player".
C7_LookupNoMatchIsError ==
    ( /\ ProviderAnswered
      /\ call.op = "lookup_player"
      /\ Len(response.value) = 0 )
    => RaisesErrorIn("lookup_player")

C9_MappingPassThrough ==
    ProviderAnswered =>
        /\ call.op \in PassThroughOps =>
              outcome = Return(response.type, response.value)
        /\ call.op = "get_boxscore" =>
              /\ outcome.kind = "return"
              /\ DOMAIN outcome.value = {"game_id", "boxscore", "success"}
              /\ outcome.value.boxscore = response.value
              /\ outcome.value.game_id = call.args.game_id
              /\ outcome.value.success = "True"
        /\ call.op = "get_team_leaders" =>
              /\ outcome.kind = "return"
              /\ DOMAIN outcome.value =
                    {"teamId", "leaderCategory", "season", "results", "teamLeaders"}
              /\ outcome.value.results = response.value
              /\ outcome.value.teamId = call.args.team_id
              /\ outcome.value.leaderCategory = call.args.leader_category
              /\ outcome.value.season = call.args.season
              /\ outcome.value.teamLeaders = "True"

C9_Witness ==
    /\ ProviderAnswered
    /\ call.op = "get_standings"
    /\ response.value = [copyright |-> "MLB", stats |-> <<"s1", "s2">>]
    /\ outcome.value = response.value

\* the error mapping echoes the request: the parameters sent, or an input
ErrorMappingHasContext ==
    LET m == outcome.value IN
    IF "params_sent" \in DOMAIN m THEN m.params_sent = request.kwargs
    ELSE IF "params" \in DOMAIN m THEN m.params = call.args.params
    ELSE \E k \in DOMAIN m \ {"error"} : \E a \in DOMAIN call.args :
            m[k] = call.args[a]

\* the raised message names an identifier or parameter of the request, as the
\* caller gave it or as it was sent to the provider
RaisedMessageHasContext ==
    \/ \E a \in DOMAIN call.args :
          call.args[a] # None /\ Contains(outcome.msg, call.args[a])
    \/ \E i \in 1..Len(request.args) :
          request.args[i] # None /\ Contains(outcome.msg, request.args[i])

\* C10: every error outcome carries the original-request context: a returned
\* error mapping includes the input identifier or the parameters sent, a
\* raised error's message includes the identifier or parameters of the
\* failing request.
C10_ErrorCarriesContext ==
    ProviderFailed =>
        \/ ReturnsKey("error") /\ ErrorMappingHasContext
        \/ outcome.kind = "raise" /\ RaisedMessageHasContext

\* C11 (as stated): invoking the same operation again with identical
\* parameters, the upstream data set being unchanged, yields the same result.
Repeated == pc = "done" /\ earlier # NoEarlier /\ call = earlier.call

DefaultsStartDt ==
    /\ call.op \in {"get_statcast_data", "get_statcast_batter_data",
                    "get_statcast_pitcher_data"}
    /\ call.args.start_dt = None

FreshServer ==
    /\ call = NoCall
    /\ request = NoRequest
    /\ response = NoResponse
    /\ outcome = NoOutcome
    /\ log = <<>>
    /\ sent = <<>>
    /\ inbox = {}
    /\ tools = Registered

DatedOps ==
    {"get_statcast_data", "get_statcast_batter_data", "get_statcast_pitcher_data"}

\* C15: get_statcast_data, get_statcast_batter_data and
\* get_statcast_pitcher_data called without start_dt ask the provider for the
\* day before the current date, as YYYY-MM-DD, and do not fail for the lack of
\* it: a table with rows is returned as a result; a start_dt the caller gives
\* is the one the provider receives.
C15_StartDtDefaultsToYesterday ==
    pc = "done" /\ call.op \in DatedOps =>
        /\ call.args.start_dt = None => request.args[1] = Yesterday(clock)
        /\ call.args.start_dt # None => request.args[1] = call.args.start_dt
        /\ request.args[2] = call.args.end_dt
        /\ ProviderAnswered /\ response.type = "DataFrame"
              /\ Len(response.value.rows) > 0 => outcome.kind = "return"

C15_Witness ==
    /\ pc = "done"
    /\ call.op = "get_statcast_pitcher_data"
    /\ call.args.start_dt = None
    /\ clock = "2024-03-01"
    /\ request.args = <<"2024-02-29", None, "592450">>
    /\ outcome.kind = "return"

\* C16: get_team_leaders hands the caller's limit to the provider unchanged,
\* and when the caller gives no limit the provider is asked for all the
\* leaders: the request carries no cap on their number.
C16_LimitDefaultsToAll ==
    pc = "done" /\ call.op = "get_team_leaders" =>
        /\ call.args.limit # None => request.kwargs.limit = call.args.limit
        /\ call.args.limit = None =>
              \/ "limit" \notin DOMAIN request.kwargs
              \/ request.kwargs.limit = None

ErrorRecords == {i \in 1..Len(log) : log[i].level = "ERROR"}

\* C17: when the provider call of an operation has failed, the invocation has
\* emitted exactly one error-level log record, and the record's message
\* includes the operation's name and the text of the exception.
C17_OneErrorRecordNamingOperation ==
    ProviderFailed =>
        /\ Cardinality(ErrorRecords) = 1
        /\ \A i \in ErrorRecords :
              /\ Contains(log[i].msg, response.msg)
              /\ Contains(log[i].msg, call.op)

\* the names in the tool catalogue
ToolNames == {tools[i] : i \in 1..Len(tools)}

\* C18: the tool catalogue is the one established at startup, whatever tools
\* have been invoked since: it is unchanged, every name in it is registered
\* once, and get_schedule, lookup_player and get_standings are in it.
C18_CatalogueFixed ==
    /\ tools = Registered
    /\ \A i, j \in 1..Len(tools) : tools[i] = tools[j] => i = j
    /\ {"get_schedule", "lookup_player", "get_standings"} \subseteq ToolNames

\* a registered tool has been invoked and has failed
C18_Witness ==
    /\ ProviderFailed
    /\ call.op = "get_standings"
    /\ call.op \in ToolNames
    /\ Cardinality(ToolNames) = Len(tools)

\* C19: every get_statcast_* adapter of tools/statcast_tools.py is in the
\* server's tool catalogue, so that a call by its name reaches the adapter.
C19_StatcastAdaptersRegistered == \A op \in StatcastOps : op \in ToolNames

\* the provider's name of each parameter, as <<parameter, key>>
Translation(op) ==
    CASE op = "get_schedule" ->
            { <<"date", "date">>, <<"team_id", "team">>, <<"sport_id", "sportId">>,
              <<"game_type", "gameType">> }
      [] op = "get_player_stats" ->
            { <<"player_id", "personId">>, <<"stats", "type">>, <<"group", "group">>,
              <<"season", "season">> }
      [] op = "get_standings" ->
            { <<"standings_types", "standingsTypes">>, <<"league_id", "leagueId">>,
              <<"division_id", "divisionId">>, <<"season", "season">> }
      [] op = "get_game_pace" ->
            { <<"season", "season">>, <<"team_id", "teamId">> }

\* the default of a parameter in the function's signature; player_id has none
DefaultOf(op, param) ==
    CASE op = "get_schedule" /\ param = "sport_id" -> "1"
      [] op = "get_player_stats" /\ param = "group" -> "hitting"
      [] op = "get_player_stats" /\ param = "stats" -> "season"
      [] op = "get_player_stats" /\ param = "player_id" -> "required"
      [] op = "get_standings" /\ param = "standings_types" -> "regularSeason"
      [] OTHER -> None

OneRecordPerRow(t, r) ==
    /\ Len(r.data) = Len(t.rows)
    /\ "columns" \in DOMAIN r
    /\ \A i \in 1..Len(r.data) :
          /\ DOMAIN r.data[i] = ColSet(r.columns)
          /\ \A c \in ColSet(t.columns) :
                ~IsAbsent(t.rows[i][c]) =>
                    /\ c \in DOMAIN r.data[i]
                    /\ r.data[i][c] = t.rows[i][c]

\* C21 as claimed: for any table with at least one row, the conversion emits
\* exactly one record per input row, in row order, each record has exactly
\* the keys listed in columns, and every cell that is neither null nor the
\* empty string is in its record unchanged.
C21_OneRecordPerRow ==
    ( /\ Converted
      /\ call.args.df.type = "DataFrame"
      /\ Len(call.args.df.value.rows) >= 1 )
    => /\ outcome.kind = "return"
       /\ OneRecordPerRow(call.args.df.value, outcome.value)

\* C21 as amended: the same, for a table with at least one row and at least
\* one column whose serialisation succeeds; a table with rows but no column
\* and a table whose serialisation fails yield no record at all.
C21_OneRecordPerRowWhenSerialised ==
    ( /\ Converted
      /\ call.args.df.type = "DataFrame"
      /\ Len(call.args.df.value.rows) >= 1 )
    => /\ outcome.kind = "return"
       /\ IF Len(call.args.df.value.columns) >= 1 /\ call.args.ser = None
          THEN OneRecordPerRow(call.args.df.value, outcome.value)
          ELSE outcome.value.data = <<>>

C21_Witness ==
    /\ Converted
    /\ call.args.ser = None
    /\ call.args.df.type = "DataFrame"
    /\ Len(call.args.df.value.rows) = 2
    /\ call.args.df.value.columns = Columns
    /\ call.args.df.value.rows[1] # call.args.df.value.rows[2]
    /\ call.args.df.value.rows[1]["events"] = "single"
    /\ Len(outcome.value.data) = 2
    /\ outcome.value.data[1]["events"] = "single"

\* a tabular-fetch operation has returned a result (it did not raise)
StatcastReturned == pc = "done" /\ call.op \in StatcastOps /\ outcome.kind = "return"

\* C22 as claimed: every result a tabular-fetch operation returns without
\* raising contains all three keys data, count and columns.
C22_ResultHasDataCountColumns ==
    StatcastReturned => {"data", "count", "columns"} \subseteq DOMAIN outcome.value

\* C22 as amended: every returned result contains data and count; it
\* contains columns exactly when the table has a column and its
\* serialisation succeeded, and it carries error instead of columns exactly
\* when the serialisation of a table with a column failed.
C22_ResultHasDataCount ==
    StatcastReturned =>
        LET serialised == response.ser = None
            hasColumn == Len(response.value.columns) >= 1
        IN  /\ {"data", "count"} \subseteq DOMAIN outcome.value
            /\ ("columns" \in DOMAIN outcome.value) <=> (hasColumn /\ serialised)
            /\ ("error" \in DOMAIN outcome.value) <=> (hasColumn /\ ~serialised)

C22_Witness ==
    /\ StatcastReturned
    /\ call.op = "get_statcast_single_game"
    /\ DOMAIN outcome.value = {"data", "count", "columns"}
    /\ outcome.value.count = 2

\* an invocation has ended by returning a value to its caller
Returned == pc = "done" /\ outcome.kind = "return"

\* C23 as claimed: for every adapter that returns a mapping, the returned
\* value has the key error if and only if the provider call failed.
C23_ErrorKeyIffProviderFailed ==
    Returned => (ReturnsKey("error") <=> response.kind = "raise")

\* C23 as amended: a statsapi adapter returns a mapping with the key error
\* if and only if its provider call failed; a get_statcast_* adapter returns
\* only when its provider call succeeded, and its result has the key error
\* exactly when the serialisation of the provider's table failed.
C23_ErrorKeyIffFailure ==
    Returned =>
        IF call.op \in StatcastOps
        THEN /\ response.kind = "ok"
             /\ ReturnsKey("error") <=>
                    (response.ser # None /\ Len(response.value.columns) >= 1)
        ELSE ReturnsKey("error") <=> response.kind = "raise"

C23_Witness ==
    /\ Returned
    /\ call.op = "get_stats"
    /\ response.kind = "raise"
    /\ DOMAIN outcome.value = {"error", "params"}

\* the serialisation of a table that reaches the try block has failed
SerializationFailed == ~EmptyOrAbsent(call.args.df) /\ call.args.ser # None

\* C24: _convert_dataframe_to_dict never raises: for an absent, an empty, a
\* well-formed and a non-serialisable table alike it returns a mapping whose
\* count is the length of its data, and a serialisation failure is reported
\* as a mapping with data empty, count 0 and an error key.
C24_ConvertIsTotal ==
    Converted =>
        /\ outcome.kind = "return"
        /\ outcome.type = "dict"
        /\ {"data", "count"} \subseteq DOMAIN outcome.value
        /\ outcome.value.count = Len(outcome.value.data)
        /\ SerializationFailed =>
              /\ outcome.value.data = <<>>
              /\ outcome.value.count = 0
              /\ "error" \in DOMAIN outcome.value

C24_Witness ==
    /\ Converted
    /\ SerializationFailed
    /\ Len(call.args.df.value.rows) = 2
    /\ outcome.kind = "return"
    /\ outcome.value.error = <<"DataFrame serialization failed: ", "cannot serialize">>

StatsapiOps == {Registered[i] : i \in 1..Len(Registered)} \cup {"get_game_scoring_play_data"}

\* C26: for every statsapi adapter, an optional parameter the caller leaves
\* unset (None) is omitted from the provider call: no keyword argument of the
\* request sent to the provider has the value None.
C26_NoNoneInRequest ==
    (pc = "done" /\ call.op \in StatsapiOps /\ request # NoRequest) =>
        \A k \in DOMAIN request.kwargs : request.kwargs[k] # None

\* C27: no declared parameter is silently ignored; in particular the
\* leader_game_type given to get_team_leaders is forwarded to the provider
\* (it is one of the keyword arguments of the statsapi.team_leaders call).
C27_LeaderGameTypeForwarded ==
    (pc = "done" /\ call.op = "get_team_leaders") =>
        \E k \in DOMAIN request.kwargs :
            request.kwargs[k] = call.args.leader_game_type

\* the entries of a list, as a set
Entries(list) == {list[i] : i \in 1..Len(list)}

\* get_notes has parsed the text the provider returned
NotesParsed ==
    /\ pc = "done"
    /\ call.op = "get_notes"
    /\ response.kind = "ok"
    /\ ReturnsKey("all_params")

\* C25: in the result of get_notes, for any notes text the provider returns,
\* all_params is path_params followed by query_params, every entry of
\* required_params is a parameter name that also appears in all_params, and
\* a 'Required query parameters' value of None contributes no entry to
\* required_params.
C25_NotesParams ==
    NotesParsed =>
        LET r == outcome.value
        IN  /\ r.all_params = r.path_params \o r.query_params
            /\ Entries(r.required_params) \subseteq Entries(r.all_params)
            /\ \A p \in Entries(r.required_params) : "None" \notin Entries(p)

\* the last record was logged through a configured logger that is enabled
\* for the record's level
RecordLogged ==
    /\ logging.record # NoRecord
    /\ logging.record.name \in logging.configured
    /\ logging.record.levelno >= EffectiveLevel(logging, logging.record.name)

\* C28: after any sequence of setup_logging calls (any logger names, the root
\* logger included, any environment settings), every configured logger has
\* exactly one handler, and a record logged through a configured logger is
\* written exactly once.
C28_OneHandlerOneLine ==
    /\ \A n \in logging.configured : Len(logging.handlers[n]) = 1
    /\ RecordLogged => Len(logging.written) = 1

\* C29: each of the ten tools of server.py is equivalent to the definition
\* of the same name in tools/mlb_statsapi_tools.py: for the same arguments
\* and the same provider behaviour the server's tool sends the provider
\* request the tools file's definition sends and produces its result or its
\* error mapping, and the endpoint catalogue get_available_endpoints returns
\* is the tools file's catalogue.
C29_DefinitionsEquivalent ==
    (pc = "done" /\ call.op \in {Registered[i] : i \in 1..Len(Registered)}) =>
        /\ request = tools_request(call.op, call.args)
        /\ outcome = tools_returns(call.op, call.args, response)
        /\ call.op = "get_available_endpoints" =>
              outcome.value.endpoints = tools_endpoints

C29_Witness ==
    /\ pc = "done"
    /\ call.op = "get_available_endpoints"
    /\ ReturnsKey("endpoints")
    /\ Cardinality(DOMAIN outcome.value.endpoints) = 27
    /\ outcome.value.endpoints["venues"].required_params = <<"venueIds">>

====
